---- MODULE Spec2Model ----
(***************************************************************************)
(* Model of two pieces of the twurple client library:                      *)
(*   - the paginated deletion sweep of HelixEventSubApi                    *)
(*     (_deleteSubscriptionsWithCondition, deleteAllSubscriptions,         *)
(*     deleteBrokenSubscriptions);                                         *)
(*   - the chat emote offset parser parseEmoteOffsets.                     *)
(***************************************************************************)
EXTENDS Integers, Sequences, FiniteSets, TLC

VARIABLES
    listing,       \* pages the subscriptions endpoint serves, in cursor order
    deleted,       \* ids of the subscriptions whose DELETE request succeeded
    cond,          \* per sweep: the cond argument of the sweep
    pc,            \* per sweep: position of the async function
    paginatorOf,   \* per sweep: the paginator object the sweep iterates
    pg,            \* per paginator object: cursor, buffered page, end flag
    current,       \* per sweep: the loop variable `sub`
    yielded,       \* per sweep: records the paginator has yielded to the loop
    evaluated,     \* per sweep: ids on which cond(sub) was evaluated
    unsubscribed,  \* per sweep: ids on which sub.unsubscribe() was invoked
    fetchLog,      \* per sweep: page numbers requested from the endpoint
    outstanding,   \* per sweep: calls issued and not yet settled
    raised,        \* per sweep: errors the collaborators have raised
    outcome,       \* per sweep: how the promise of the sweep settled
    shape,         \* structure the emotes argument is written from
    emotes,        \* the argument of parseEmoteOffsets
    result,        \* what parseEmoteOffsets returned
    parsePc,       \* position of the call of parseEmoteOffsets
    createArgs,    \* the arguments of createSubscription
    createPc,      \* position of the call of createSubscription
    requests,      \* the requests createSubscription has passed to callApi
    createOutcome, \* how the promise of createSubscription settled
    builder,       \* the method createSubscription was reached through
    builderArgs    \* the arguments that method was called with

sweepVars == <<listing, deleted, cond, pc, paginatorOf, pg, current, yielded,
               evaluated, unsubscribed, fetchLog, outstanding, raised, outcome>>

parseVars == <<shape, emotes, result, parsePc>>

createVars == <<createArgs, createPc, requests, createOutcome, builder, builderArgs>>

vars == <<sweepVars, parseVars, createVars>>

-----------------------------------------------------------------------------
(* Bounds of the model *)

MaxPages == 3
MaxPageSize == 2
MaxRecords == 4
MaxRecordsInterleaved == 2
MaxShapeTokens == 4
MaxEntries == 3

-----------------------------------------------------------------------------
(* Data *)

Sweeps == {"A", "B"}

Statuses == {"enabled", "webhook_callback_verification_pending", "authorization_revoked"}

NoCond == "undefined"
BrokenCondName == "broken"

NoSub == [id |-> 0, status |-> "none"]
Pending == [kind |-> "pending", arg |-> 0]
Fulfilled == [kind |-> "fulfilled", arg |-> 0]

Min(a, b) == IF a < b THEN a ELSE b

RECURSIVE SumSeq(_)
SumSeq(s) == IF s = <<>> THEN 0 ELSE Head(s) + SumSeq(Tail(s))

RECURSIVE Flatten(_)
Flatten(pages) == IF pages = <<>> THEN <<>> ELSE Head(pages) \o Flatten(Tail(pages))

Ids(recs) == [i \in 1..Len(recs) |-> recs[i].id]

IsPrefix(s, t) == Len(s) <= Len(t) /\ SubSeq(t, 1, Len(s)) = s

Last(s) == s[Len(s)]

\* Sequences of page sizes: at most k pages, at most n records in all.
RECURSIVE SizeSeqs(_, _)
SizeSeqs(k, n) ==
    IF k = 0 THEN {<<>>}
    ELSE {<<>>} \cup UNION {{<<sz>> \o rest : rest \in SizeSeqs(k - 1, n - sz)} :
                             sz \in 1..Min(MaxPageSize, n)}

Offset(sizes, p) == SumSeq(SubSeq(sizes, 1, p - 1))

MakeListing(sizes, st) ==
    [p \in 1..Len(sizes) |->
        [i \in 1..sizes[p] |-> [id |-> Offset(sizes, p) + i,
                                status |-> st[Offset(sizes, p) + i]]]]

Listings(k, n) ==
    UNION {{MakeListing(sz, st) : st \in [1..SumSeq(sz) -> Statuses]} : sz \in SizeSeqs(k, n)}

-----------------------------------------------------------------------------
(* The paginator the sweep iterates *)

FreshPaginator == [cursor |-> 0, buffer |-> <<>>, ended |-> FALSE]

\* The page a request for page number k is answered with.
PageAt(k) == IF k <= Len(listing) THEN listing[k] ELSE <<>>

SharedPaginator(s) == CHOOSE p \in Sweeps : TRUE
\* getSubscriptionsPaginated: a new paginator object on every call.
GetSubscriptionsPaginated(s) == s

-----------------------------------------------------------------------------
(* The predicates of the sweeps *)

OnlyNotEnabled(sub) == sub.status # "enabled"
\* deleteBrokenSubscriptions: the predicate it passes.
BrokenCond(sub) ==
    sub.status # "enabled" /\ sub.status # "webhook_callback_verification_pending"

CondHolds(c, sub) == IF c = BrokenCondName THEN BrokenCond(sub) ELSE FALSE

OnlyWithCond(c, sub) == c # NoCond /\ CondHolds(c, sub)

NegatedCond(c, sub) == c = NoCond \/ ~CondHolds(c, sub)
\* if (!cond || cond(sub))
ShouldUnsubscribe(c, sub) == c = NoCond \/ CondHolds(c, sub)

-----------------------------------------------------------------------------
(* The sweep *)

DeleteSubscriptionsWithCondition(s, c) ==
    /\ pc[s] = "idle"
    /\ cond' = [cond EXCEPT ![s] = c]
    /\ LET p == GetSubscriptionsPaginated(s) IN
         /\ paginatorOf' = [paginatorOf EXCEPT ![s] = p]
         /\ pg' = [pg EXCEPT ![p] = FreshPaginator]
    /\ pc' = [pc EXCEPT ![s] = "next"]
    /\ UNCHANGED <<listing, deleted, current, yielded, evaluated, unsubscribed,
                   fetchLog, outstanding, raised, outcome>>
    /\ UNCHANGED <<parseVars, createVars>>

DeleteAllSubscriptions(s) == DeleteSubscriptionsWithCondition(s, NoCond)

DeleteBrokenSubscriptions(s) == DeleteSubscriptionsWithCondition(s, BrokenCondName)

\* The loop asks for the next record and the buffered page is used up.
IssueFetch(s) ==
    LET p == paginatorOf[s]
        call == [kind |-> "fetch", arg |-> pg[p].cursor + 1] IN
    /\ pc[s] = "next"
    /\ pg[p].buffer = <<>>
    /\ ~pg[p].ended
    /\ outstanding' = [outstanding EXCEPT ![s] = @ \cup {call}]
    /\ fetchLog' = [fetchLog EXCEPT ![s] = Append(@, call.arg)]
    /\ pc' = [pc EXCEPT ![s] = "fetching"]
    /\ UNCHANGED <<listing, deleted, cond, paginatorOf, pg, current, yielded,
                   evaluated, unsubscribed, raised, outcome>>
    /\ UNCHANGED <<parseVars, createVars>>

FetchResolve(s) ==
    \E call \in outstanding[s] :
        LET p == paginatorOf[s] IN
        /\ call.kind = "fetch"
        /\ pc[s] = "fetching"
        /\ pg' = [pg EXCEPT ![p] = [cursor |-> call.arg,
                                    buffer |-> PageAt(call.arg),
                                    ended |-> call.arg >= Len(listing)]]
        /\ outstanding' = [outstanding EXCEPT ![s] = @ \ {call}]
        /\ pc' = [pc EXCEPT ![s] = "next"]
        /\ UNCHANGED <<listing, deleted, cond, paginatorOf, current, yielded,
                       evaluated, unsubscribed, fetchLog, raised, outcome>>
        /\ UNCHANGED <<parseVars, createVars>>

RetryFetch(s, err) ==
    /\ pc' = [pc EXCEPT ![s] = "next"]
    /\ UNCHANGED outcome
\* for await: a rejected page request rejects the sweep (no try/catch).
OnFetchRejected(s, err) ==
    /\ pc' = [pc EXCEPT ![s] = "failed"]
    /\ outcome' = [outcome EXCEPT ![s] = err]

FetchReject(s) ==
    \E call \in outstanding[s] :
        /\ call.kind = "fetch"
        /\ pc[s] = "fetching"
        /\ outstanding' = [outstanding EXCEPT ![s] = @ \ {call}]
        /\ raised' = [raised EXCEPT ![s] = @ \cup {call}]
        /\ OnFetchRejected(s, call)
        /\ UNCHANGED <<listing, deleted, cond, paginatorOf, pg, current, yielded,
                       evaluated, unsubscribed, fetchLog>>
        /\ UNCHANGED <<parseVars, createVars>>

YieldRecord(s) ==
    LET p == paginatorOf[s] IN
    /\ pc[s] = "next"
    /\ pg[p].buffer # <<>>
    /\ current' = [current EXCEPT ![s] = Head(pg[p].buffer)]
    /\ yielded' = [yielded EXCEPT ![s] = Append(@, Head(pg[p].buffer))]
    /\ pg' = [pg EXCEPT ![p].buffer = Tail(@)]
    /\ pc' = [pc EXCEPT ![s] = "body"]
    /\ UNCHANGED <<listing, deleted, cond, paginatorOf, evaluated, unsubscribed,
                   fetchLog, outstanding, raised, outcome>>
    /\ UNCHANGED <<parseVars, createVars>>

EndOfSource(s) ==
    LET p == paginatorOf[s] IN
    /\ pc[s] = "next"
    /\ pg[p].buffer = <<>>
    /\ pg[p].ended
    /\ pc' = [pc EXCEPT ![s] = "done"]
    /\ outcome' = [outcome EXCEPT ![s] = Fulfilled]
    /\ UNCHANGED <<listing, deleted, cond, paginatorOf, pg, current, yielded,
                   evaluated, unsubscribed, fetchLog, outstanding, raised>>
    /\ UNCHANGED <<parseVars, createVars>>

NotAwaited == "next"
\* await sub.unsubscribe(): the function is suspended until the call settles.
AfterUnsubscribeInvoked == "awaitUnsub"

LoopBody(s) ==
    LET sub == current[s] IN
    /\ pc[s] = "body"
    /\ evaluated' = [evaluated EXCEPT ![s] = IF cond[s] = NoCond THEN @ ELSE Append(@, sub.id)]
    /\ IF ShouldUnsubscribe(cond[s], sub)
       THEN /\ unsubscribed' = [unsubscribed EXCEPT ![s] = Append(@, sub.id)]
            /\ outstanding' = [outstanding EXCEPT
                                  ![s] = @ \cup {[kind |-> "unsubscribe", arg |-> sub.id]}]
            /\ pc' = [pc EXCEPT ![s] = AfterUnsubscribeInvoked]
       ELSE /\ pc' = [pc EXCEPT ![s] = "next"]
            /\ UNCHANGED <<unsubscribed, outstanding>>
    /\ UNCHANGED <<listing, deleted, cond, paginatorOf, pg, current, yielded,
                   fetchLog, raised, outcome>>
    /\ UNCHANGED <<parseVars, createVars>>

UnsubscribeResolve(s) ==
    \E call \in outstanding[s] :
        /\ call.kind = "unsubscribe"
        /\ deleted' = deleted \cup {call.arg}
        /\ outstanding' = [outstanding EXCEPT ![s] = @ \ {call}]
        /\ pc' = [pc EXCEPT ![s] = IF @ = "awaitUnsub" THEN "next" ELSE @]
        /\ UNCHANGED <<listing, cond, paginatorOf, pg, current, yielded, evaluated,
                       unsubscribed, fetchLog, raised, outcome>>
        /\ UNCHANGED <<parseVars, createVars>>

SwallowUnsubscribeError(s, err) ==
    /\ pc' = [pc EXCEPT ![s] = IF @ = "awaitUnsub" THEN "next" ELSE @]
    /\ UNCHANGED outcome
\* A rejected unsubscribe rejects the sweep when it is awaited (no try/catch).
OnUnsubscribeRejected(s, err) ==
    IF pc[s] = "awaitUnsub"
    THEN /\ pc' = [pc EXCEPT ![s] = "failed"]
         /\ outcome' = [outcome EXCEPT ![s] = err]
    ELSE UNCHANGED <<pc, outcome>>

UnsubscribeReject(s) ==
    \E call \in outstanding[s] :
        /\ call.kind = "unsubscribe"
        /\ outstanding' = [outstanding EXCEPT ![s] = @ \ {call}]
        /\ raised' = [raised EXCEPT ![s] = @ \cup {call}]
        /\ OnUnsubscribeRejected(s, call)
        /\ UNCHANGED <<listing, deleted, cond, paginatorOf, pg, current, yielded,
                       evaluated, unsubscribed, fetchLog>>
        /\ UNCHANGED <<parseVars, createVars>>

SweepStep(s) ==
    \/ DeleteAllSubscriptions(s)
    \/ DeleteBrokenSubscriptions(s)
    \/ IssueFetch(s)
    \/ FetchResolve(s)
    \/ FetchReject(s)
    \/ YieldRecord(s)
    \/ EndOfSource(s)
    \/ LoopBody(s)
    \/ UnsubscribeResolve(s)
    \/ UnsubscribeReject(s)

-----------------------------------------------------------------------------
(* Strings *)

\* A string is the sequence of its characters.
Chars == {"/", ":", ",", "a", "b"}

\* The value undefined (an omitted argument, a missing array element).
Undefined == <<"undefined">>

Null == <<"null">>

TypeError == <<"TypeError">>

RECURSIVE Join(_, _)
Join(strs, sep) ==
    IF strs = <<>> THEN <<>>
    ELSE IF Len(strs) = 1 THEN strs[1]
    ELSE strs[1] \o <<sep>> \o Join(Tail(strs), sep)

\* String.prototype.split with a one-character separator.
RECURSIVE Split(_, _)
Split(str, sep) ==
    IF \A i \in 1..Len(str) : str[i] # sep THEN <<str>>
    ELSE LET i == CHOOSE i \in 1..Len(str) :
                      str[i] = sep /\ \A j \in 1..(i - 1) : str[j] # sep
         IN <<SubSeq(str, 1, i - 1)>> \o Split(SubSeq(str, i + 1, Len(str)), sep)

SplitRest(str, sep, limit) ==
    LET all == Split(str, sep) IN
    IF Len(all) <= limit THEN all
    ELSE SubSeq(all, 1, limit - 1) \o <<Join(SubSeq(all, limit, Len(all)), sep)>>
\* String.prototype.split with a limit: the array is truncated to limit parts.
SplitLimit(str, sep, limit) ==
    LET all == Split(str, sep) IN SubSeq(all, 1, Min(limit, Len(all)))

\* Array destructuring: a missing element is undefined.
At(arr, i) == IF i <= Len(arr) THEN arr[i] ELSE Undefined

-----------------------------------------------------------------------------
(* parseEmoteOffsets *)

OnlyEmptyEmotes(e) == e = <<>>
\* if (!emotes)
NoEmotes(e) == e = Undefined \/ e = <<>>

OnlyEmptyPlacements(pl) == pl = <<>>

OnlyUndefinedPlacements(pl) == pl = Undefined
\* if (!placements)
NoPlacements(pl) == pl = Undefined \/ pl = <<>>

MapEmoteUnsplit(emote) ==
    LET parts == SplitLimit(emote, ":", 2)
        emoteId == At(parts, 1)
        placements == At(parts, 2) IN
    IF NoPlacements(placements) THEN Null ELSE <<emoteId, <<placements>>>>
MapEmoteWithoutEmpty(emote) ==
    LET parts == SplitLimit(emote, ":", 2)
        emoteId == At(parts, 1)
        placements == At(parts, 2) IN
    IF NoPlacements(placements) \/ emoteId = <<>> THEN Null
    ELSE <<emoteId, SelectSeq(Split(placements, ","), LAMBDA tok : tok # <<>>)>>
\* The callback of map: an entry becomes null or [emoteId, placements].
MapEmote(emote) ==
    LET parts == SplitLimit(emote, ":", 2)
        emoteId == At(parts, 1)
        placements == At(parts, 2) IN
    IF NoPlacements(placements) THEN Null
    ELSE IF placements = Undefined THEN TypeError
    ELSE <<emoteId, Split(placements, ",")>>

HasKey(m, k) == \E i \in 1..Len(m) : m[i][1] = k

MapSetKeepFirst(m, k, v) == IF HasKey(m, k) THEN m ELSE Append(m, <<k, v>>)
MapSetMoveToEnd(m, k, v) ==
    Append(SelectSeq(m, LAMBDA e : e[1] # k), <<k, v>>)

\* Map.prototype.set: a known key keeps its position and takes the new value.
MapSet(m, k, v) ==
    IF HasKey(m, k)
    THEN [i \in 1..Len(m) |-> IF m[i][1] = k THEN <<k, v>> ELSE m[i]]
    ELSE Append(m, <<k, v>>)

\* new Map(entries): the entries are set from first to last.
RECURSIVE MapFrom(_, _)
MapFrom(m, entries) ==
    IF entries = <<>> THEN m
    ELSE MapFrom(MapSet(m, Head(entries)[1], Head(entries)[2]), Tail(entries))

NewMap(entries) == MapFrom(<<>>, entries)

Returned(m) == [threw |-> FALSE, map |-> m]

Thrown == [threw |-> TRUE, map |-> <<>>]

ParseEmoteOffsets(e) ==
    IF NoEmotes(e) THEN Returned(NewMap(<<>>))
    ELSE IF e = Undefined THEN Thrown
    ELSE LET split == Split(e, "/")
             mapped == [i \in 1..Len(split) |-> MapEmote(split[i])]
             filtered == SelectSeq(mapped, LAMBDA x : x # Null) IN
         IF \E i \in 1..Len(mapped) : mapped[i] = TypeError THEN Thrown
         ELSE Returned(NewMap(filtered))

\* The call returns (or throws).
ParseEmoteOffsetsReturn ==
    /\ parsePc = "called"
    /\ result' = ParseEmoteOffsets(emotes)
    /\ parsePc' = "returned"
    /\ UNCHANGED <<shape, emotes>>
    /\ UNCHANGED <<sweepVars, createVars>>

-----------------------------------------------------------------------------
(* The arguments parseEmoteOffsets is called with *)

\* A shape is a sequence of entries, an entry a sequence of segments (the
\* parts between its colons), a segment a sequence of tokens (the parts
\* between its commas), a token a string without separator.
Tokens == {<<>>, <<"a">>, <<"b">>}

RenderSegment(seg) == Join(seg, ",")

RenderEntry(entry) == Join([i \in 1..Len(entry) |-> RenderSegment(entry[i])], ":")

Render(sh) == Join([i \in 1..Len(sh) |-> RenderEntry(sh[i])], "/")

SegmentsOf(n) == UNION {[1..k -> Tokens] : k \in 1..n}

\* The entries of at most n tokens.
RECURSIVE EntriesOf(_)
EntriesOf(n) ==
    IF n = 0 THEN {}
    ELSE UNION {{<<seg>> \o rest : rest \in {<<>>} \cup EntriesOf(n - Len(seg))} :
                 seg \in SegmentsOf(n)}

TokensIn(entry) == SumSeq([i \in 1..Len(entry) |-> Len(entry[i])])

\* The shapes of at most n tokens.
RECURSIVE ShapesOf(_)
ShapesOf(n) ==
    IF n = 0 THEN {}
    ELSE UNION {{<<entry>> \o rest : rest \in {<<>>} \cup ShapesOf(n - TokensIn(entry))} :
                 entry \in EntriesOf(n)}

\* Entries of the usual forms, for longer arguments.
PlainEntries ==
    UNION {{ <<<<id>>>>,
             <<<<id>>, <<<<>>>>>>,
             <<<<id>>, <<<<"a">>>>>>,
             <<<<id>>, <<<<"b">>>>>>,
             <<<<id>>, <<<<"a">>, <<"b">>>>>>,
             <<<<id>>, <<<<"b">>>>, <<<<"a">>>>>> } : id \in {<<"a">>, <<"b">>}}

PlainShapes == UNION {[1..n -> PlainEntries] : n \in 1..MaxEntries}

Shapes == ShapesOf(MaxShapeTokens) \cup PlainShapes

NoResult == [threw |-> FALSE, map |-> <<>>]

-----------------------------------------------------------------------------
(* createSubscription *)

TransportMethods == {"webhook", "websocket", "conduit"}

\* A user is absent, or a user id (the empty string is one).
Users == {Undefined, <<>>, <<"1">>}

ScopeSets == {Undefined, <<>>, <<"scope:a">>, <<"scope:a", "scope:b">>}

BatchedValues == {"undefined", "false", "true"}

CreateArgs ==
    [type : {"user.update"}, version : {"1"}, transport : [method : TransportMethods],
     user : Users, requiredScopeSet : ScopeSets, isBatched : BatchedValues]

CreatePending == [kind |-> "pending", error |-> <<>>]

Created == [kind |-> "fulfilled", error |-> <<>>]

Rejected(e) == [kind |-> "rejected", error |-> e]

CallApiError == <<"HttpStatusCodeError">>

\* const usesAppAuth = transport.method === 'webhook'
UsesAppAuth(transport) == transport.method = "webhook"

GivenScopes(usesAppAuth, requiredScopeSet) == requiredScopeSet
\* const scopes = usesAppAuth ? undefined : requiredScopeSet
Scopes(usesAppAuth, requiredScopeSet) == IF usesAppAuth THEN Undefined ELSE requiredScopeSet

\* !user, for an optional string
NoUser(user) == user = Undefined \/ user = <<>>

NeverMissing(usesAppAuth, user) == FALSE
\* if (!usesAppAuth && !user)
UserContextMissing(usesAppAuth, user) == ~usesAppAuth /\ NoUser(user)

UserContextError(transport) ==
    <<"Transport ", transport.method, " can only handle subscriptions with user context">>

\* usesAppAuth ? 'app' : 'user'
ForceType(usesAppAuth) == IF usesAppAuth THEN "app" ELSE "user"

\* mapOptional(user, extractUserId), for a user given as a string
UserId(user) == IF user = Undefined THEN Undefined ELSE user

JsonBody(a) ==
    [type |-> a.type, version |-> a.version, transport |-> a.transport,
     is_batching_enabled |-> IF a.isBatched = "true" THEN "true" ELSE "undefined"]

ApiCall(a) ==
    LET usesAppAuth == UsesAppAuth(a.transport) IN
    [type |-> "helix", url |-> "eventsub/subscriptions", method |-> "POST",
     scopes |-> Scopes(usesAppAuth, a.requiredScopeSet),
     userId |-> UserId(a.user),
     forceType |-> ForceType(usesAppAuth),
     jsonBody |-> JsonBody(a)]

\* The call runs up to its first await: it throws, or passes a request on.
CreateSubscription ==
    /\ createPc = "called"
    /\ IF UserContextMissing(UsesAppAuth(createArgs.transport), createArgs.user)
       THEN /\ createOutcome' = Rejected(UserContextError(createArgs.transport))
            /\ createPc' = "done"
            /\ UNCHANGED requests
       ELSE /\ requests' = Append(requests, ApiCall(createArgs))
            /\ createPc' = "awaitCallApi"
            /\ UNCHANGED createOutcome
    /\ UNCHANGED <<createArgs, builder, builderArgs>>
    /\ UNCHANGED <<sweepVars, parseVars>>

CallApiResolve ==
    /\ createPc = "awaitCallApi"
    /\ createOutcome' = Created
    /\ createPc' = "done"
    /\ UNCHANGED <<createArgs, requests, builder, builderArgs>>
    /\ UNCHANGED <<sweepVars, parseVars>>

CallApiReject ==
    /\ createPc = "awaitCallApi"
    /\ createOutcome' = Rejected(CallApiError)
    /\ createPc' = "done"
    /\ UNCHANGED <<createArgs, requests, builder, builderArgs>>
    /\ UNCHANGED <<sweepVars, parseVars>>

-----------------------------------------------------------------------------
(* The subscribeTo...Events methods *)

\* What each method passes to createSubscription: the type and version,
\* the parameter it passes as user (none when it passes no user), the
\* scope set and isBatched. subscribeToUserUpdateEvents computes its scope
\* set from withEmail (see ScopeSetOf).
Builders ==
    { [name |-> "subscribeToStreamOnlineEvents", type |-> "stream.online", version |-> "1",
       userParam |-> "broadcaster", requiredScopeSet |-> Undefined, isBatched |-> "undefined"],
      [name |-> "subscribeToStreamOfflineEvents", type |-> "stream.offline", version |-> "1",
       userParam |-> "broadcaster", requiredScopeSet |-> Undefined, isBatched |-> "undefined"],
      [name |-> "subscribeToChannelUpdateEvents", type |-> "channel.update", version |-> "1",
       userParam |-> "broadcaster", requiredScopeSet |-> Undefined, isBatched |-> "undefined"],
      [name |-> "subscribeToChannelFollowEvents", type |-> "channel.follow", version |-> "1",
       userParam |-> "broadcaster", requiredScopeSet |-> Undefined, isBatched |-> "undefined"],
      [name |-> "subscribeToChannelFollowEventsV2", type |-> "channel.follow", version |-> "2",
       userParam |-> "moderator", requiredScopeSet |-> <<"moderator:read:followers">>, isBatched |-> "undefined"],
      [name |-> "subscribeToChannelSubscriptionEvents", type |-> "channel.subscribe", version |-> "1",
       userParam |-> "broadcaster", requiredScopeSet |-> <<"channel:read:subscriptions">>, isBatched |-> "undefined"],
      [name |-> "subscribeToChannelSubscriptionGiftEvents", type |-> "channel.subscription.gift", version |-> "1",
       userParam |-> "broadcaster", requiredScopeSet |-> <<"channel:read:subscriptions">>, isBatched |-> "undefined"],
      [name |-> "subscribeToChannelSubscriptionMessageEvents", type |-> "channel.subscription.message", version |-> "1",
       userParam |-> "broadcaster", requiredScopeSet |-> <<"channel:read:subscriptions">>, isBatched |-> "undefined"],
      [name |-> "subscribeToChannelSubscriptionEndEvents", type |-> "channel.subscription.end", version |-> "1",
       userParam |-> "broadcaster", requiredScopeSet |-> <<"channel:read:subscriptions">>, isBatched |-> "undefined"],
      [name |-> "subscribeToChannelCheerEvents", type |-> "channel.cheer", version |-> "1",
       userParam |-> "broadcaster", requiredScopeSet |-> <<"bits:read">>, isBatched |-> "undefined"],
      [name |-> "subscribeToChannelCharityCampaignStartEvents", type |-> "channel.charity_campaign.start", version |-> "1",
       userParam |-> "broadcaster", requiredScopeSet |-> <<"channel:read:charity">>, isBatched |-> "undefined"],
      [name |-> "subscribeToChannelCharityCampaignStopEvents", type |-> "channel.charity_campaign.stop", version |-> "1",
       userParam |-> "broadcaster", requiredScopeSet |-> <<"channel:read:charity">>, isBatched |-> "undefined"],
      [name |-> "subscribeToChannelCharityDonationEvents", type |-> "channel.charity_campaign.donate", version |-> "1",
       userParam |-> "broadcaster", requiredScopeSet |-> <<"channel:read:charity">>, isBatched |-> "undefined"],
      [name |-> "subscribeToChannelCharityCampaignProgressEvents", type |-> "channel.charity_campaign.progress", version |-> "1",
       userParam |-> "broadcaster", requiredScopeSet |-> <<"channel:read:charity">>, isBatched |-> "undefined"],
      [name |-> "subscribeToChannelBanEvents", type |-> "channel.ban", version |-> "1",
       userParam |-> "broadcaster", requiredScopeSet |-> <<"channel:moderate">>, isBatched |-> "undefined"],
      [name |-> "subscribeToChannelUnbanEvents", type |-> "channel.unban", version |-> "1",
       userParam |-> "broadcaster", requiredScopeSet |-> <<"channel:moderate">>, isBatched |-> "undefined"],
      [name |-> "subscribeToChannelShieldModeBeginEvents", type |-> "channel.shield_mode.begin", version |-> "1",
       userParam |-> "broadcaster", requiredScopeSet |-> <<"moderator:read:shield_mode", "moderator:manage:shield_mode">>, isBatched |-> "undefined"],
      [name |-> "subscribeToChannelShieldModeEndEvents", type |-> "channel.shield_mode.end", version |-> "1",
       userParam |-> "broadcaster", requiredScopeSet |-> <<"moderator:read:shield_mode", "moderator:manage:shield_mode">>, isBatched |-> "undefined"],
      [name |-> "subscribeToChannelModeratorAddEvents", type |-> "channel.moderator.add", version |-> "1",
       userParam |-> "broadcaster", requiredScopeSet |-> <<"moderation:read">>, isBatched |-> "undefined"],
      [name |-> "subscribeToChannelModeratorRemoveEvents", type |-> "channel.moderator.remove", version |-> "1",
       userParam |-> "broadcaster", requiredScopeSet |-> <<"moderation:read">>, isBatched |-> "undefined"],
      [name |-> "subscribeToChannelRaidEventsFrom", type |-> "channel.raid", version |-> "1",
       userParam |-> "broadcaster", requiredScopeSet |-> Undefined, isBatched |-> "undefined"],
      [name |-> "subscribeToChannelRaidEventsTo", type |-> "channel.raid", version |-> "1",
       userParam |-> "broadcaster", requiredScopeSet |-> Undefined, isBatched |-> "undefined"],
      [name |-> "subscribeToChannelRewardAddEvents", type |-> "channel.channel_points_custom_reward.add", version |-> "1",
       userParam |-> "broadcaster", requiredScopeSet |-> <<"channel:read:redemptions", "channel:manage:redemptions">>, isBatched |-> "undefined"],
      [name |-> "subscribeToChannelRewardUpdateEvents", type |-> "channel.channel_points_custom_reward.update", version |-> "1",
       userParam |-> "broadcaster", requiredScopeSet |-> <<"channel:read:redemptions", "channel:manage:redemptions">>, isBatched |-> "undefined"],
      [name |-> "subscribeToChannelRewardUpdateEventsForReward", type |-> "channel.channel_points_custom_reward.update", version |-> "1",
       userParam |-> "broadcaster", requiredScopeSet |-> <<"channel:read:redemptions", "channel:manage:redemptions">>, isBatched |-> "undefined"],
      [name |-> "subscribeToChannelRewardRemoveEvents", type |-> "channel.channel_points_custom_reward.remove", version |-> "1",
       userParam |-> "broadcaster", requiredScopeSet |-> <<"channel:read:redemptions", "channel:manage:redemptions">>, isBatched |-> "undefined"],
      [name |-> "subscribeToChannelRewardRemoveEventsForReward", type |-> "channel.channel_points_custom_reward.remove", version |-> "1",
       userParam |-> "broadcaster", requiredScopeSet |-> <<"channel:read:redemptions", "channel:manage:redemptions">>, isBatched |-> "undefined"],
      [name |-> "subscribeToChannelRedemptionAddEvents", type |-> "channel.channel_points_custom_reward_redemption.add", version |-> "1",
       userParam |-> "broadcaster", requiredScopeSet |-> <<"channel:read:redemptions", "channel:manage:redemptions">>, isBatched |-> "undefined"],
      [name |-> "subscribeToChannelRedemptionAddEventsForReward", type |-> "channel.channel_points_custom_reward_redemption.add", version |-> "1",
       userParam |-> "broadcaster", requiredScopeSet |-> <<"channel:read:redemptions", "channel:manage:redemptions">>, isBatched |-> "undefined"],
      [name |-> "subscribeToChannelRedemptionUpdateEvents", type |-> "channel.channel_points_custom_reward_redemption.update", version |-> "1",
       userParam |-> "broadcaster", requiredScopeSet |-> <<"channel:read:redemptions", "channel:manage:redemptions">>, isBatched |-> "undefined"],
      [name |-> "subscribeToChannelRedemptionUpdateEventsForReward", type |-> "channel.channel_points_custom_reward_redemption.update", version |-> "1",
       userParam |-> "broadcaster", requiredScopeSet |-> <<"channel:read:redemptions", "channel:manage:redemptions">>, isBatched |-> "undefined"],
      [name |-> "subscribeToChannelPollBeginEvents", type |-> "channel.poll.begin", version |-> "1",
       userParam |-> "broadcaster", requiredScopeSet |-> <<"channel:read:polls", "channel:manage:polls">>, isBatched |-> "undefined"],
      [name |-> "subscribeToChannelPollProgressEvents", type |-> "channel.poll.progress", version |-> "1",
       userParam |-> "broadcaster", requiredScopeSet |-> <<"channel:read:polls", "channel:manage:polls">>, isBatched |-> "undefined"],
      [name |-> "subscribeToChannelPollEndEvents", type |-> "channel.poll.end", version |-> "1",
       userParam |-> "broadcaster", requiredScopeSet |-> <<"channel:read:polls", "channel:manage:polls">>, isBatched |-> "undefined"],
      [name |-> "subscribeToChannelPredictionBeginEvents", type |-> "channel.prediction.begin", version |-> "1",
       userParam |-> "broadcaster", requiredScopeSet |-> <<"channel:read:predictions", "channel:manage:predictions">>, isBatched |-> "undefined"],
      [name |-> "subscribeToChannelPredictionProgressEvents", type |-> "channel.prediction.progress", version |-> "1",
       userParam |-> "broadcaster", requiredScopeSet |-> <<"channel:read:predictions", "channel:manage:predictions">>, isBatched |-> "undefined"],
      [name |-> "subscribeToChannelPredictionLockEvents", type |-> "channel.prediction.lock", version |-> "1",
       userParam |-> "broadcaster", requiredScopeSet |-> <<"channel:read:predictions", "channel:manage:predictions">>, isBatched |-> "undefined"],
      [name |-> "subscribeToChannelPredictionEndEvents", type |-> "channel.prediction.end", version |-> "1",
       userParam |-> "broadcaster", requiredScopeSet |-> <<"channel:read:predictions", "channel:manage:predictions">>, isBatched |-> "undefined"],
      [name |-> "subscribeToChannelGoalBeginEvents", type |-> "channel.goal.begin", version |-> "1",
       userParam |-> "broadcaster", requiredScopeSet |-> <<"channel:read:goals">>, isBatched |-> "undefined"],
      [name |-> "subscribeToChannelGoalProgressEvents", type |-> "channel.goal.progress", version |-> "1",
       userParam |-> "broadcaster", requiredScopeSet |-> <<"channel:read:goals">>, isBatched |-> "undefined"],
      [name |-> "subscribeToChannelGoalEndEvents", type |-> "channel.goal.end", version |-> "1",
       userParam |-> "broadcaster", requiredScopeSet |-> <<"channel:read:goals">>, isBatched |-> "undefined"],
      [name |-> "subscribeToChannelHypeTrainBeginEvents", type |-> "channel.hype_train.begin", version |-> "1",
       userParam |-> "broadcaster", requiredScopeSet |-> <<"channel:read:hype_train">>, isBatched |-> "undefined"],
      [name |-> "subscribeToChannelHypeTrainProgressEvents", type |-> "channel.hype_train.progress", version |-> "1",
       userParam |-> "broadcaster", requiredScopeSet |-> <<"channel:read:hype_train">>, isBatched |-> "undefined"],
      [name |-> "subscribeToChannelHypeTrainEndEvents", type |-> "channel.hype_train.end", version |-> "1",
       userParam |-> "broadcaster", requiredScopeSet |-> <<"channel:read:hype_train">>, isBatched |-> "undefined"],
      [name |-> "subscribeToChannelShoutoutCreateEvents", type |-> "channel.shoutout.create", version |-> "1",
       userParam |-> "broadcaster", requiredScopeSet |-> <<"moderator:read:shoutouts", "moderator:manage:shoutouts">>, isBatched |-> "undefined"],
      [name |-> "subscribeToChannelShoutoutReceiveEvents", type |-> "channel.shoutout.receive", version |-> "1",
       userParam |-> "broadcaster", requiredScopeSet |-> <<"moderator:read:shoutouts", "moderator:manage:shoutouts">>, isBatched |-> "undefined"],
      [name |-> "subscribeToExtensionBitsTransactionCreateEvents", type |-> "extension.bits_transaction.create", version |-> "1",
       userParam |-> "none", requiredScopeSet |-> Undefined, isBatched |-> "undefined"],
      [name |-> "subscribeToUserAuthorizationGrantEvents", type |-> "user.authorization.grant", version |-> "1",
       userParam |-> "none", requiredScopeSet |-> Undefined, isBatched |-> "undefined"],
      [name |-> "subscribeToUserAuthorizationRevokeEvents", type |-> "user.authorization.revoke", version |-> "1",
       userParam |-> "none", requiredScopeSet |-> Undefined, isBatched |-> "undefined"],
      [name |-> "subscribeToUserUpdateEvents", type |-> "user.update", version |-> "1",
       userParam |-> "user", requiredScopeSet |-> Undefined, isBatched |-> "undefined"],
      [name |-> "subscribeToDropEntitlementGrantEvents", type |-> "drop.entitlement.grant", version |-> "1",
       userParam |-> "none", requiredScopeSet |-> Undefined, isBatched |-> "true"] }

Direct == "createSubscription"

\* The user a method is given: a user id (the empty string is one).
BuilderUsers == {<<>>, <<"1">>}

NoBuilderArgs == [transport |-> [method |-> "webhook"], user |-> Undefined, withEmail |-> FALSE]

\* The arguments of a method; only subscribeToUserUpdateEvents has withEmail.
BuilderArgsOf(b) ==
    [transport : [method : TransportMethods],
     user : IF b.userParam = "none" THEN {Undefined} ELSE BuilderUsers,
     withEmail : IF b.name = "subscribeToUserUpdateEvents" THEN BOOLEAN ELSE {FALSE}]

NeverPassedUser(b, args) == Undefined
\* The fifth argument of the call of createSubscription, omitted or the
\* method's user parameter.
PassedUser(b, args) == IF b.userParam = "none" THEN Undefined ELSE args.user

\* withEmail ? ['user:read:email'] : undefined
ScopeSetOf(b, args) ==
    IF b.name = "subscribeToUserUpdateEvents"
    THEN IF args.withEmail THEN <<"user:read:email">> ELSE Undefined
    ELSE b.requiredScopeSet

SubscriptionArgs(b, args) ==
    [type |-> b.type, version |-> b.version, transport |-> args.transport,
     user |-> PassedUser(b, args), requiredScopeSet |-> ScopeSetOf(b, args),
     isBatched |-> b.isBatched]

\* return await this.createSubscription(...): the method calls
\* createSubscription, whose promise is the method's.
SubscribeTo ==
    /\ createPc = "builderCalled"
    /\ \E b \in Builders :
          /\ b.name = builder
          /\ createArgs' = SubscriptionArgs(b, builderArgs)
    /\ createPc' = "called"
    /\ UNCHANGED <<requests, createOutcome, builder, builderArgs>>
    /\ UNCHANGED <<sweepVars, parseVars>>

\* No call of createSubscription is under way.
CreateIdle ==
    /\ createArgs = [type |-> "user.update", version |-> "1",
                     transport |-> [method |-> "webhook"], user |-> Undefined,
                     requiredScopeSet |-> Undefined, isBatched |-> "undefined"]
    /\ createPc = "idle"
    /\ requests = <<>>
    /\ createOutcome = CreatePending
    /\ builder = Direct
    /\ builderArgs = NoBuilderArgs

SweepInit(ls) ==
    /\ listing \in ls
    /\ deleted = {}
    /\ cond = [s \in Sweeps |-> NoCond]
    /\ pc = [s \in Sweeps |-> "idle"]
    /\ paginatorOf = [s \in Sweeps |-> s]
    /\ pg = [p \in Sweeps |-> FreshPaginator]
    /\ current = [s \in Sweeps |-> NoSub]
    /\ yielded = [s \in Sweeps |-> <<>>]
    /\ evaluated = [s \in Sweeps |-> <<>>]
    /\ unsubscribed = [s \in Sweeps |-> <<>>]
    /\ fetchLog = [s \in Sweeps |-> <<>>]
    /\ outstanding = [s \in Sweeps |-> {}]
    /\ raised = [s \in Sweeps |-> {}]
    /\ outcome = [s \in Sweeps |-> Pending]

\* No call of parseEmoteOffsets is under way.
ParseIdle ==
    /\ shape = <<>>
    /\ emotes = Undefined
    /\ result = NoResult
    /\ parsePc = "idle"

\* One sweep over a source of up to MaxPages pages.
Init == SweepInit(Listings(MaxPages, MaxRecords)) /\ ParseIdle /\ CreateIdle

Next == SweepStep("A")

Spec == Init /\ [][Next]_vars

\* The steps of a sweep whose requests are all answered successfully.
LiveStep(s) ==
    \/ IssueFetch(s)
    \/ FetchResolve(s)
    \/ YieldRecord(s)
    \/ EndOfSource(s)
    \/ LoopBody(s)
    \/ UnsubscribeResolve(s)

NextLive ==
    \/ DeleteAllSubscriptions("A")
    \/ DeleteBrokenSubscriptions("A")
    \/ LiveStep("A")

\* One sweep over a source that answers every request, and successfully:
\* a continuation that can run does run, a request issued is answered.
SpecLive == Init /\ [][NextLive]_vars /\ WF_vars(LiveStep("A"))

\* Two sweeps of the same client, interleaved.
InitInterleaved ==
    SweepInit(Listings(MaxPages, MaxRecordsInterleaved)) /\ ParseIdle /\ CreateIdle

NextInterleaved == \E s \in Sweeps : SweepStep(s)

SpecInterleaved == InitInterleaved /\ [][NextInterleaved]_vars

\* One call of parseEmoteOffsets, with the argument omitted or a string.
ParseInit ==
    /\ SweepInit({<<>>})
    /\ CreateIdle
    /\ \/ shape = <<>> /\ emotes = Undefined
       \/ shape \in Shapes /\ emotes = Render(shape)
    /\ result = NoResult
    /\ parsePc = "called"

ParseNext == ParseEmoteOffsetsReturn

ParseSpec == ParseInit /\ [][ParseNext]_vars

\* One call of createSubscription, made directly or through one of the
\* subscribeTo...Events methods.
CreateInit ==
    /\ SweepInit({<<>>})
    /\ ParseIdle
    /\ requests = <<>>
    /\ createOutcome = CreatePending
    /\ \/ /\ builder = Direct
          /\ builderArgs = NoBuilderArgs
          /\ createArgs \in CreateArgs
          /\ createPc = "called"
       \/ /\ \E b \in Builders :
                /\ builder = b.name
                /\ builderArgs \in BuilderArgsOf(b)
          /\ createArgs = [type |-> "user.update", version |-> "1",
                           transport |-> [method |-> "webhook"], user |-> Undefined,
                           requiredScopeSet |-> Undefined, isBatched |-> "undefined"]
          /\ createPc = "builderCalled"

CreateNext ==
    \/ SubscribeTo
    \/ CreateSubscription
    \/ CallApiResolve
    \/ CallApiReject

CreateSpec == CreateInit /\ [][CreateNext]_vars

-----------------------------------------------------------------------------
(* Properties of the sweep *)

UnsubscribeCalls(s) == {c \in outstanding[s] : c.kind = "unsubscribe"}

FetchCalls(s) == {c \in outstanding[s] : c.kind = "fetch"}

AllRecords == Flatten(listing)

\* Record ids are the positions of the records in the source.
StatusOf(id) == AllRecords[id].status

PageOf(id) == CHOOSE p \in 1..Len(listing) : \E i \in 1..Len(listing[p]) : listing[p][i].id = id

UpTo(n) == [i \in 1..n |-> i]

IsKept(r) == r.status \in {"enabled", "webhook_callback_verification_pending"}

IsOther(r) == ~IsKept(r)

Matches(c, r) == c = NoCond \/ IsOther(r)

\* The yielded records whose loop body has run.
Processed(s) ==
    IF pc[s] = "body" THEN SubSeq(yielded[s], 1, Len(yielded[s]) - 1) ELSE yielded[s]

\* C1: during a sweep at most one unsubscribe call is outstanding, no page
\* request is outstanding while one is, and the outstanding unsubscribe is the
\* one of the record yielded last: the next record is requested only after it
\* has completed.
C1_UnsubscribeAwaitedBeforeNext ==
    /\ Cardinality(UnsubscribeCalls("A")) <= 1
    /\ UnsubscribeCalls("A") # {} =>
          /\ FetchCalls("A") = {}
          /\ yielded["A"] # <<>>
          /\ \A c \in UnsubscribeCalls("A") : c.arg = Last(yielded["A"]).id

C1_Witness ==
    /\ UnsubscribeCalls("A") # {}
    /\ unsubscribed["A"] = <<1, 2>>
    /\ pg["A"].buffer = <<>>
    /\ ~pg["A"].ended

\* C2: once an unsubscribe call of a sweep has failed, the sweep has ended
\* with that failure as its outcome, the failing record is the last one
\* yielded, evaluated and unsubscribed, and no page beyond the one holding
\* it has been requested.
C2_UnsubscribeFailureAborts ==
    \A s \in Sweeps : \A e \in raised[s] :
        e.kind = "unsubscribe" =>
            /\ pc[s] = "failed"
            /\ outcome[s] = e
            /\ outstanding[s] = {}
            /\ Last(yielded[s]).id = e.arg
            /\ Last(unsubscribed[s]) = e.arg
            /\ cond[s] # NoCond => Last(evaluated[s]) = e.arg
            /\ fetchLog[s] = UpTo(PageOf(e.arg))

C2_Witness ==
    /\ [kind |-> "unsubscribe", arg |-> 2] \in raised["A"]
    /\ unsubscribed["A"] = <<1, 2>>
    /\ Len(listing) = 3
    /\ PageOf(2) = 1
    /\ \A i \in 1..Len(AllRecords) : Matches(cond["A"], AllRecords[i])

\* C3: once a page request of a sweep has failed, the sweep has ended with
\* that failure as its outcome, every page was requested once and none
\* after the failed one, every unsubscribe invoked is on a record of an
\* earlier page, and those unsubscribes stay completed.
C3_FetchFailureAborts ==
    \A s \in Sweeps : \A e \in raised[s] :
        e.kind = "fetch" =>
            /\ pc[s] = "failed"
            /\ outcome[s] = e
            /\ outstanding[s] = {}
            /\ fetchLog[s] = UpTo(e.arg)
            /\ \A i \in 1..Len(unsubscribed[s]) :
                  /\ PageOf(unsubscribed[s][i]) < e.arg
                  /\ unsubscribed[s][i] \in deleted

C3_Witness ==
    /\ [kind |-> "fetch", arg |-> 2] \in raised["A"]
    /\ unsubscribed["A"] # <<>>
    /\ Len(listing) >= 2
    /\ \E i \in 1..Len(listing[2]) : Matches(cond["A"], listing[2][i])

\* C4: a deleteBrokenSubscriptions sweep never invokes unsubscribe on a
\* record whose status is enabled or webhook_callback_verification_pending,
\* and one that completes without failure has invoked it on every record
\* with another status, in page order and within-page order.
C4_BrokenSweepSkipsKept ==
    \A s \in Sweeps :
        cond[s] = BrokenCondName =>
            /\ \A i \in 1..Len(unsubscribed[s]) : ~IsKept(AllRecords[unsubscribed[s][i]])
            /\ pc[s] = "done" => unsubscribed[s] = Ids(SelectSeq(AllRecords, IsOther))

C4_Witness ==
    /\ cond["A"] = BrokenCondName
    /\ pc["A"] = "done"
    /\ Len(listing) = 3
    /\ Len(listing[2]) = 2
    /\ listing[2][2].status = "enabled"
    /\ \A i \in 1..Len(AllRecords) : i # listing[2][2].id => IsOther(AllRecords[i])
    /\ unsubscribed["A"] = <<1, 2, 4>>

\* C5: a deleteAllSubscriptions sweep that completes without failure has
\* invoked unsubscribe on every record the source yielded, whatever its
\* status, in the order in which the source yielded them.
C5_DeleteAllUnsubscribesEveryRecord ==
    \A s \in Sweeps :
        (cond[s] = NoCond /\ pc[s] = "done") =>
            /\ unsubscribed[s] = Ids(yielded[s])
            /\ yielded[s] = AllRecords
            /\ \A i \in 1..Len(yielded[s]) : yielded[s][i].id \in deleted

C5_Witness ==
    /\ cond["A"] = NoCond
    /\ pc["A"] = "done"
    /\ Len(listing) = 3
    /\ {AllRecords[i].status : i \in 1..Len(AllRecords)} = Statuses
    /\ unsubscribed["A"] = <<1, 2, 3, 4>>

\* C6: two interleaved sweeps iterate distinct paginator objects, and each
\* is yielded the records of the source from the first one on, in source
\* order, requests the pages once each in order, and has invoked unsubscribe
\* on exactly the matching records it has processed, whatever the other
\* sweep has done.
C6_SweepsOwnTheirCursor ==
    /\ \A s, t \in Sweeps :
          (s # t /\ pc[s] # "idle" /\ pc[t] # "idle") => paginatorOf[s] # paginatorOf[t]
    /\ \A s \in Sweeps :
          /\ IsPrefix(yielded[s], AllRecords)
          /\ fetchLog[s] = UpTo(Len(fetchLog[s]))
          /\ unsubscribed[s] =
                Ids(SelectSeq(Processed(s), LAMBDA r : Matches(cond[s], r)))

C6_Witness ==
    /\ Len(yielded["A"]) = 2
    /\ Len(yielded["B"]) = 1
    /\ pc["B"] = "failed"
    /\ pc["A"] = "done"
    /\ cond["A"] # cond["B"]
    /\ Len(listing) = 2

Front(s) == IF s = <<>> THEN <<>> ELSE SubSeq(s, 1, Len(s) - 1)

MatchingIds(c, recs) == Ids(SelectSeq(recs, LAMBDA r : Matches(c, r)))

\* C16: in every state of a sweep the records unsubscribe was invoked on
\* are the matching ones among the yielded records, the last yielded one
\* left out while its loop body has not run; an unsubscribe call is only
\* ever outstanding for a matching record, and a record that does not
\* match is passed without a call.
C16_UnsubscribedAreMatchingPrefix ==
    \A s \in Sweeps :
        /\ unsubscribed[s] \in {MatchingIds(cond[s], yielded[s]),
                                MatchingIds(cond[s], Front(yielded[s]))}
        /\ pc[s] # "body" => unsubscribed[s] = MatchingIds(cond[s], yielded[s])
        /\ \A c \in UnsubscribeCalls(s) : Matches(cond[s], AllRecords[c.arg])
        /\ (pc[s] = "next" /\ yielded[s] # <<>> /\ ~Matches(cond[s], Last(yielded[s]))) =>
              /\ outstanding[s] = {}
              /\ Last(yielded[s]).id \notin {unsubscribed[s][i] : i \in 1..Len(unsubscribed[s])}

C16_Witness ==
    /\ cond["A"] = BrokenCondName
    /\ Len(yielded["A"]) = 3
    /\ IsKept(yielded["A"][2])
    /\ unsubscribed["A"] = <<1, 3>>
    /\ UnsubscribeCalls("A") = {[kind |-> "unsubscribe", arg |-> 3]}

SweepCompleted(s) ==
    /\ pc[s] = "done"
    /\ outcome[s] = Fulfilled
    /\ outstanding[s] = {}
    /\ unsubscribed[s] = MatchingIds(cond[s], AllRecords)
    /\ cond[s] # NoCond => evaluated[s] = Ids(AllRecords)
    /\ \A i \in 1..Len(unsubscribed[s]) : unsubscribed[s][i] \in deleted

\* C17: over a finite source that answers every page request and every
\* unsubscribe call successfully, a sweep that was started completes, and
\* has then invoked unsubscribe once on each matching record and, when it
\* has a predicate, evaluated it once on each record.
C17_SweepCompletes == (pc["A"] # "idle") ~> SweepCompleted("A")

C17_Witness ==
    /\ SweepCompleted("A")
    /\ cond["A"] = BrokenCondName
    /\ Len(listing) = 3
    /\ evaluated["A"] = <<1, 2, 3, 4>>
    /\ unsubscribed["A"] = <<2, 4>>


-----------------------------------------------------------------------------
(* Properties of parseEmoteOffsets *)

Keys(m) == [i \in 1..Len(m) |-> m[i][1]]

\* An entry "<id>:<p1>,<p2>,..." with a non-empty id and non-empty placements.
WellFormedEntry(entry) ==
    /\ Len(entry) = 2
    /\ Len(entry[1]) = 1
    /\ entry[1][1] # <<>>
    /\ \A j \in 1..Len(entry[2]) : entry[2][j] # <<>>

WellFormedShape(sh) ==
    /\ sh # <<>>
    /\ \A i \in 1..Len(sh) : WellFormedEntry(sh[i])
    /\ \A i, j \in 1..Len(sh) : i # j => sh[i][1] # sh[j][1]

\* C7: for an argument of well-formed entries with distinct ids, the map
\* returned has exactly the ids of the entries as keys, and maps each id to
\* the placement tokens of its entry in their original order.
C7_WellFormedInputParsed ==
    (parsePc = "returned" /\ emotes # Undefined /\ WellFormedShape(shape)) =>
        result = Returned([i \in 1..Len(shape) |-> <<shape[i][1][1], shape[i][2]>>])

\* "a:a,b/b:a", the form of "25:0-4,12-16/1902:6-10"
C7_Witness ==
    /\ parsePc = "returned"
    /\ emotes = <<"a", ":", "a", ",", "b", "/", "b", ":", "a">>
    /\ WellFormedShape(shape)
    /\ result.map = << <<<<"a">>, <<<<"a">>, <<"b">>>>>>, <<<<"b">>, <<<<"a">>>>>> >>

\* C8: the map returned is empty when the argument is omitted and when it
\* is the empty string.
C8_NoEmotesGivesEmptyMap ==
    (parsePc = "returned" /\ (emotes = Undefined \/ emotes = <<>>)) =>
        result = Returned(<<>>)

C8_Witness ==
    /\ parsePc = "returned"
    /\ emotes = Undefined
    /\ result = Returned(<<>>)

RemoveAt(sh, i) == SubSeq(sh, 1, i - 1) \o SubSeq(sh, i + 1, Len(sh))

\* C9: an entry without a colon adds nothing: what is returned is what is
\* returned for the argument with that entry removed, and nothing but an
\* empty map when no entry has a colon.
C9_EntryWithoutColonIgnored ==
    (parsePc = "returned" /\ emotes # Undefined) =>
        /\ \A i \in 1..Len(shape) :
              Len(shape[i]) = 1 => result = ParseEmoteOffsets(Render(RemoveAt(shape, i)))
        /\ (\A i \in 1..Len(shape) : Len(shape[i]) = 1) => result = Returned(<<>>)

\* "a:b/b/b:a"
C9_Witness ==
    /\ parsePc = "returned"
    /\ emotes = <<"a", ":", "b", "/", "b", "/", "b", ":", "a">>
    /\ Len(shape[2]) = 1
    /\ result.map = << <<<<"a">>, <<<<"b">>>>>>, <<<<"b">>, <<<<"a">>>>>> >>

\* The entries that are kept: a colon followed by a non-empty segment.
Survives(entry) == Len(entry) >= 2 /\ entry[2] # <<<<>>>>

EmoteIdOf(entry) == RenderSegment(entry[1])

SurvivingWithId(id) == {i \in 1..Len(shape) : Survives(shape[i]) /\ EmoteIdOf(shape[i]) = id}

Max(S) == CHOOSE x \in S : \A y \in S : y <= x

\* C10: each id of a kept entry is mapped, once, to the placements of the
\* last kept entry with that id, and nothing else is a key.
C10_LastOccurrenceWins ==
    (parsePc = "returned" /\ emotes # Undefined) =>
        /\ ~result.threw
        /\ \A i \in 1..Len(shape) :
              Survives(shape[i]) =>
                  LET id == EmoteIdOf(shape[i])
                      last == Max(SurvivingWithId(id)) IN
                  /\ Cardinality({n \in 1..Len(result.map) : result.map[n][1] = id}) = 1
                  /\ \A n \in 1..Len(result.map) :
                        result.map[n][1] = id => result.map[n][2] = shape[last][2]
        /\ \A n \in 1..Len(result.map) : SurvivingWithId(result.map[n][1]) # {}

\* "a:a,b/b:a/a:b"
C10_Witness ==
    /\ parsePc = "returned"
    /\ emotes = <<"a", ":", "a", ",", "b", "/", "b", ":", "a", "/", "a", ":", "b">>
    /\ result.map = << <<<<"a">>, <<<<"b">>>>>>, <<<<"b">>, <<<<"a">>>>>> >>

\* An entry whose first colon is followed by an empty segment, as "a:".
EmptyPlacements(entry) == Len(entry) >= 2 /\ entry[2] = <<<<>>>>

ValuesOf(m, k) == {m[n][2] : n \in {x \in 1..Len(m) : m[x][1] = k}}

\* C11: an entry whose colon is followed by an empty placements segment is
\* dropped: what is returned is what is returned for the argument without
\* it, its id is a key only when a kept entry has that id, and the id then
\* still maps to the placements of the last kept entry with that id.
C11_EmptyPlacementsDropped ==
    (parsePc = "returned" /\ emotes # Undefined) =>
        \A i \in 1..Len(shape) :
            EmptyPlacements(shape[i]) =>
                LET id == EmoteIdOf(shape[i]) IN
                /\ result = ParseEmoteOffsets(Render(RemoveAt(shape, i)))
                /\ SurvivingWithId(id) = {} => ~HasKey(result.map, id)
                /\ SurvivingWithId(id) # {} =>
                      ValuesOf(result.map, id) = {shape[Max(SurvivingWithId(id))][2]}

\* "a:b/a:"
C11_Witness ==
    /\ parsePc = "returned"
    /\ emotes = <<"a", ":", "b", "/", "a", ":">>
    /\ EmptyPlacements(shape[2])
    /\ result = Returned(<< <<<<"a">>, <<<<"b">>>>>> >>)

\* C12: the call never throws: for the omitted argument and for every
\* string it returns a map, and an entry that cannot be read (no colon, or
\* nothing after it) leaves no key in it.
C12_NeverThrows ==
    parsePc = "returned" =>
        /\ ~result.threw
        /\ Len(result.map) <= Cardinality({i \in 1..Len(shape) : Survives(shape[i])})
        /\ \A n \in 1..Len(result.map) :
              \E i \in 1..Len(shape) :
                  Survives(shape[i]) /\ EmoteIdOf(shape[i]) = result.map[n][1]

\* "a/b:/a:b:a"
C12_Witness ==
    /\ parsePc = "returned"
    /\ emotes = <<"a", "/", "b", ":", "/", "a", ":", "b", ":", "a">>
    /\ result = Returned(<< <<<<"a">>, <<<<"b">>>>>> >>)

\* C18: an entry with two or more colons is read as its first two
\* segments: the id is the text before the first colon, the placements are
\* the tokens between the first and the second colon, and the rest of the
\* entry is discarded.
C18_SplitTruncatesToTwoParts ==
    (parsePc = "returned" /\ emotes # Undefined) =>
        \A i \in 1..Len(shape) :
            Len(shape[i]) >= 3 =>
                LET id == EmoteIdOf(shape[i]) IN
                /\ result = ParseEmoteOffsets(Render([shape EXCEPT ![i] = SubSeq(@, 1, 2)]))
                /\ (Survives(shape[i]) /\ i = Max(SurvivingWithId(id))) =>
                      ValuesOf(result.map, id) = {shape[i][2]}
                /\ (~Survives(shape[i]) /\ SurvivingWithId(id) = {}) =>
                      ~HasKey(result.map, id)

\* "a:a,b:b"
C18_Witness ==
    /\ parsePc = "returned"
    /\ emotes = <<"a", ":", "a", ",", "b", ":", "b">>
    /\ Len(shape[1]) = 3
    /\ result = Returned(<< <<<<"a">>, <<<<"a">>, <<"b">>>>>> >>)

Separators == {",", "/", ":"}

HasSeparator(str) == \E c \in 1..Len(str) : str[c] \in Separators

\* The '/'-separated entries of a string: one more than its slashes.
EntryCount(str) == Cardinality({c \in 1..Len(str) : str[c] = "/"}) + 1

\* C19: every key of the returned map has at least one placement, the map
\* has at most as many keys as the argument has '/'-separated entries, and
\* no placement contains ',', '/' or ':'.
C19_MapWellFormed ==
    (parsePc = "returned" /\ emotes # Undefined) =>
        /\ Len(result.map) <= EntryCount(emotes)
        /\ \A n \in 1..Len(result.map) :
              /\ Len(result.map[n][2]) >= 1
              /\ \A j \in 1..Len(result.map[n][2]) : ~HasSeparator(result.map[n][2][j])

\* "a:a,b/b:b:a"
C19_Witness ==
    /\ parsePc = "returned"
    /\ emotes = <<"a", ":", "a", ",", "b", "/", "b", ":", "b", ":", "a">>
    /\ Len(result.map) = 2
    /\ Len(result.map[1][2]) = 2

SurvivingIds == {EmoteIdOf(shape[i]) : i \in {x \in 1..Len(shape) : Survives(shape[x])}}

\* C20: an entry is dropped exactly when it has no colon or nothing between
\* its first colon and the next: the keys are the ids of all other
\* entries, the empty id included, and empty comma tokens are kept as empty
\* placements (":a" gives "" -> [a], "a:a," gives a -> [a, ""], "a:,"
\* gives a -> ["", ""]).
C20_OnlyEmptyPlacementsDropped ==
    (parsePc = "returned" /\ emotes # Undefined) =>
        /\ {result.map[n][1] : n \in 1..Len(result.map)} = SurvivingIds
        /\ Len(result.map) = Cardinality(SurvivingIds)
        /\ emotes = <<":", "a">> => result = Returned(<< << <<>>, <<<<"a">>>> >> >>)
        /\ emotes = <<"a", ":", "a", ",">> =>
              result = Returned(<< << <<"a">>, <<<<"a">>, <<>>>> >> >>)
        /\ emotes = <<"a", ":", ",">> =>
              result = Returned(<< << <<"a">>, << <<>>, <<>> >> >> >>)
        /\ \A i \in 1..Len(shape) :
              (Survives(shape[i]) /\ i = Max(SurvivingWithId(EmoteIdOf(shape[i])))) =>
                  \E n \in 1..Len(result.map) :
                      /\ result.map[n][1] = EmoteIdOf(shape[i])
                      /\ Len(result.map[n][2]) = Len(shape[i][2])

\* "a:a,"
C20_Witness ==
    /\ parsePc = "returned"
    /\ emotes = <<"a", ":", "a", ",">>
    /\ result = Returned(<< << <<"a">>, <<<<"a">>, <<>>>> >> >>)

C20_WitnessEmptyId ==
    /\ parsePc = "returned"
    /\ emotes = <<":", "a">>
    /\ HasKey(result.map, <<>>)

C20_WitnessOnlyComma ==
    /\ parsePc = "returned"
    /\ emotes = <<"a", ":", ",">>
    /\ Len(result.map) = 1

\* The kept entries whose id does not occur in an earlier kept entry, in
\* input order.
FirstSurviving ==
    SelectSeq(UpTo(Len(shape)),
              LAMBDA i : /\ Survives(shape[i])
                         /\ \A j \in SurvivingWithId(EmoteIdOf(shape[i])) : i <= j)

\* C21: the keys of the returned map are the ids of the kept entries in
\* the order of their first kept occurrence; a duplicated id stays at the
\* position of its first occurrence and carries the placements of its last
\* occurrence.
C21_KeysInFirstOccurrenceOrder ==
    (parsePc = "returned" /\ emotes # Undefined) =>
        /\ ~result.threw
        /\ Keys(result.map) =
              [n \in 1..Len(FirstSurviving) |-> EmoteIdOf(shape[FirstSurviving[n]])]
        /\ \A n \in 1..Len(result.map) :
              result.map[n][2] = shape[Max(SurvivingWithId(result.map[n][1]))][2]

\* "a:a/b:a/a:b": a is set again after b, stays first, and maps to [b].
C21_Witness ==
    /\ parsePc = "returned"
    /\ emotes = <<"a", ":", "a", "/", "b", ":", "a", "/", "a", ":", "b">>
    /\ FirstSurviving = <<1, 2>>
    /\ SurvivingWithId(<<"a">>) = {1, 3}
    /\ result.map = << <<<<"a">>, <<<<"b">>>>>>, <<<<"b">>, <<<<"a">>>>>> >>

-----------------------------------------------------------------------------
(* Properties of createSubscription *)

SyncPartDone == createPc \in {"awaitCallApi", "done"}

C14_WitnessUserTransport ==
    /\ Len(requests) = 1
    /\ createArgs.transport.method = "websocket"
    /\ requests[1].scopes = <<"scope:a", "scope:b">>
    /\ requests[1].forceType = "user"

\* C15: createSubscription with a transport other than webhook and no user
\* fails with 'Transport <method> can only handle subscriptions with user
\* context' and has passed no request on; with the webhook transport it
\* never fails with that error and passes its request on without a user.
C15_UserContextRequired ==
    SyncPartDone =>
        LET method == createArgs.transport.method
            message == <<"Transport ", method,
                         " can only handle subscriptions with user context">> IN
        /\ (method # "webhook" /\ createArgs.user = Undefined) =>
              /\ createOutcome = [kind |-> "rejected", error |-> message]
              /\ requests = <<>>
        /\ method = "webhook" =>
              /\ createOutcome # [kind |-> "rejected", error |-> message]
              /\ Len(requests) = 1

C15_Witness ==
    /\ createPc = "done"
    /\ createArgs.transport.method = "websocket"
    /\ createArgs.user = Undefined
    /\ createOutcome.kind = "rejected"
    /\ requests = <<>>

C15_WitnessWebhook ==
    /\ createPc = "done"
    /\ createArgs.transport.method = "webhook"
    /\ createArgs.user = Undefined
    /\ createOutcome = Created

\* The methods that pass no user to createSubscription.
NoUserBuilders ==
    {"subscribeToExtensionBitsTransactionCreateEvents",
     "subscribeToUserAuthorizationGrantEvents",
     "subscribeToUserAuthorizationRevokeEvents",
     "subscribeToDropEntitlementGrantEvents"}

UserContextFailure ==
    createOutcome = [kind |-> "rejected",
                     error |-> <<"Transport ", createArgs.transport.method,
                                 " can only handle subscriptions with user context">>]

\* The part on the methods that pass no user: with the webhook transport
\* the request is sent, with any other transport the call fails with the
\* user-context error and no request is sent.
NoUserBuildersNeedWebhook ==
    builder \in NoUserBuilders =>
        /\ createArgs.user = Undefined
        /\ createArgs.transport.method = "webhook" =>
              ~UserContextFailure /\ Len(requests) = 1
        /\ createArgs.transport.method # "webhook" =>
              UserContextFailure /\ requests = <<>>

\* C22 as stated: the methods that pass no user send a request only with
\* the webhook transport and fail with the user-context error, sending
\* nothing, with any other; every other method passes a user and never
\* fails with that error.
C22_OtherBuildersNeverFail ==
    (SyncPartDone /\ builder # Direct) =>
        /\ NoUserBuildersNeedWebhook
        /\ builder \notin NoUserBuilders =>
              createArgs.user # Undefined /\ ~UserContextFailure

\* C22, amended: the methods that pass no user are as stated; every other
\* method passes its user parameter on, and fails with the user-context
\* error exactly when that parameter is falsy (the empty string) and the
\* transport is not webhook, in which case it sends no request.
C22_BuildersAndUserContext ==
    (SyncPartDone /\ builder # Direct) =>
        /\ NoUserBuildersNeedWebhook
        /\ builder \notin NoUserBuilders =>
              /\ createArgs.user = builderArgs.user
              /\ createArgs.user # Undefined
              /\ UserContextFailure <=>
                    (createArgs.transport.method # "webhook" /\ builderArgs.user = <<>>)
              /\ UserContextFailure => requests = <<>>
              /\ ~UserContextFailure => Len(requests) = 1

C22_Witness ==
    /\ createPc = "done"
    /\ builder = "subscribeToDropEntitlementGrantEvents"
    /\ createArgs.transport.method = "conduit"
    /\ createArgs.isBatched = "true"
    /\ UserContextFailure
    /\ requests = <<>>

C22_WitnessWebhook ==
    /\ createPc = "done"
    /\ builder = "subscribeToUserAuthorizationGrantEvents"
    /\ createArgs.transport.method = "webhook"
    /\ createOutcome = Created
    /\ Len(requests) = 1

C22_WitnessWithUser ==
    /\ createPc = "done"
    /\ builder = "subscribeToChannelFollowEventsV2"
    /\ createArgs.transport.method = "websocket"
    /\ createArgs.user = <<"1">>
    /\ createOutcome = Created

C22_WitnessEmptyUser ==
    /\ createPc = "done"
    /\ builder = "subscribeToUserUpdateEvents"
    /\ createArgs.transport.method = "websocket"
    /\ builderArgs.user = <<>>
    /\ UserContextFailure
    /\ requests = <<>>

====
